---------------------------- MODULE Spec2Model ----------------------------
(***************************************************************************)
(* Hybrid gesture classification engine of wasm-face-age-estimator.        *)
(*                                                                         *)
(* Two state machines share this module:                                   *)
(*   Spec     the C++ SignRecognizer (rule classifier, 210-input network,  *)
(*            arbitration in recognize, thresholds, recognizeFromPointer); *)
(*   SpecMLP  the C++ SignRecognition MLP (scaler, predictMLP) with the    *)
(*            TypeScript feature extraction that feeds it.                 *)
(*                                                                         *)
(* Numbers.  Confidences and thresholds are floats in the source; here     *)
(* they are integers in thousandths (0.85f is 850).  Landmark coordinates  *)
(* are integers on a grid.  Landmark arrays are functions over 0..n-1, as  *)
(* the source indexes them; the float vectors of the MLP are sequences,     *)
(* entry i of the source being entry i + 1 here.                           *)
(***************************************************************************)
EXTENDS Integers, Sequences, FiniteSets, TLC

VARIABLES
    neuralWeights,         \* static SignRecognizer::neuralWeights (layers)
    neuralBiases,          \* static SignRecognizer::neuralBiases
    detectionThreshold,    \* SignRecognizer::detectionThreshold
    recognitionThreshold,  \* SignRecognizer::recognitionThreshold
    call,                  \* the operation performed last
    landmarks,             \* the landmark vector of the last recognize
    count,                 \* the count argument of the last recognizeFromPointer
    handConfidence,        \* the detector's confidence for the last frame
    mlResult,              \* recognize's local mlResult of the last call
    ruleResult,            \* recognize's local ruleResult of the last call
    result,                \* the RecognitionResult returned last
    json,                  \* the string recognizeFromPointer returned last
    reads,                 \* landmark indices the last call read
    mean,                  \* SignRecognition::mean
    scale,                 \* SignRecognition::scale
    mlpCall,               \* the SignRecognition operation performed last
    meanArg,               \* the arguments of the last setScaler
    scaleArg,
    oldMean,               \* mean and scale as they were before the last setScaler
    oldScale,
    detection,             \* the detection result of the last predictWithMLP
    featureVec,            \* the vector convertLandmarksToVector built for it
    mlpReturn,             \* how the last predictWithMLP ended
    mlpLogits,             \* the logits its network computed
    seed,                  \* static seed of advancedMatrixNeuralNetwork
    randState,             \* state of std::rand
    matrixLandmarks,       \* argument of the last recognizeWithAdvancedMatrixML
    matrixResult,          \* the RecognitionResult it returned
    answers,               \* every (landmarks, result) pair returned so far
    isLoading,             \* the page's isLoading state
    recognizerReady,       \* mlRecognizerRef.current is set
    isRecording,           \* isRecordingRef.current
    recognitionMode,       \* recognitionModeRef.current
    frames,                \* how many processFrame invocations are in flight
    currentResult,         \* the page's currentResult state
    mlpResult,             \* the page's mlpResult text
    lastGesture,           \* lastGestureRef.current
    memoryPool,            \* WASMSignRecognizer.memoryPool
    heap,                  \* pointers _malloc has handed out and _free not taken back
    landmarkDataCache,     \* WASMSignRecognizer.landmarkDataCache
    frameOutcome,          \* how the last processFrame iteration ended
    normPts,               \* the landmarks last handed to normalizeLandmarks
    normOffset,            \* the offset by which they were then translated
    normOut,               \* what normalizeLandmarks returned for them
    normShifted,           \* and for the translated landmarks
    poolCall,              \* the last recognizeFast call made on its own
    detVersion,            \* which MediaPipeHandDetector of part_005 it is
    detInitialized,        \* its isInitialized, with hands set
    handsOpen,             \* hands.close() has not been called
    currentResolve,        \* the detect call whose resolver is stored, or 0
    promises,              \* the promise of each detect call
    sent,                  \* what became of the frame of each detect call
    nextDetect,            \* the number of the next detect call
    variant,               \* which WASMSignRecognizer class it is
    wasmModule,            \* its wasmModule
    recognizer,            \* whether its recognizer is set
    isInitialized,         \* its isInitialized
    lastOp,                \* the operation called last and what it returned
    callState,             \* the recognize / recognizeFast call in progress
    callDepth,             \* the number of recognizeFast frames on the stack
    wasmTouched            \* whether the call has reached _malloc

recognizerVars == <<neuralWeights, neuralBiases, detectionThreshold,
                    recognitionThreshold, call, landmarks, count,
                    handConfidence, mlResult, ruleResult, result, json,
                    reads>>
mlpVars == <<mean, scale, mlpCall, meanArg, scaleArg, oldMean, oldScale,
             detection, featureVec, mlpReturn, mlpLogits>>
matrixVars == <<seed, randState, matrixLandmarks, matrixResult, answers>>
frameVars == <<isLoading, recognizerReady, isRecording, recognitionMode,
               frames, currentResult, mlpResult, lastGesture, memoryPool,
               heap, landmarkDataCache, frameOutcome>>
normVars == <<normPts, normOffset, normOut, normShifted>>
poolVars == <<poolCall>>
detectorVars == <<detVersion, detInitialized, handsOpen, currentResolve,
                  promises, sent, nextDetect>>
wrapperVars == <<variant, wasmModule, recognizer, isInitialized, lastOp,
                 callState, callDepth, wasmTouched>>
vars == <<recognizerVars, mlpVars, matrixVars, frameVars, normVars, poolVars,
          detectorVars, wrapperVars>>

\* what the operations of one class leave alone
notRecognizerVars == <<mlpVars, matrixVars, frameVars, normVars, poolVars,
                       detectorVars, wrapperVars>>
notMlpVars == <<recognizerVars, matrixVars, frameVars, normVars, poolVars,
                       detectorVars, wrapperVars>>
notMatrixVars == <<recognizerVars, mlpVars, frameVars, normVars, poolVars,
                       detectorVars, wrapperVars>>

---------------------------------------------------------------------------
(* Bounds of the model *)

\* landmark vectors handed to recognize have 0..MaxLandmarks entries
MaxLandmarks == 22
\* arrays handed to setScaler have 0 or D_IN - 1 .. MaxScalerLen entries
MaxScalerLen == 127
\* point counts of the hands that are not 21 points long
ShortHandSizes == {0, 9, 10}
\* recognizeWithAdvancedMatrixML is called at most MaxMatrixCalls times
MaxMatrixCalls == 3
\* at most MaxLoops processFrame invocations are in flight
MaxLoops == 2
\* landmarks are translated by at most MaxOffset along each axis
MaxOffset == 1
\* at most MaxDetects calls of detect are made on one detector
MaxDetects == 3
\* the call stack holds at most MaxDepth frames of recognizeFast
MaxDepth == 3

---------------------------------------------------------------------------
(* Program constants *)

NumLandmarks == 21
PointerCount == 42
NeuralInputWidth == 210
NeuralOutputWidth == 5
DefaultDetectionThreshold == 500
DefaultRecognitionThreshold == 700
fixedValue == 50
fixedBias == 10
D_IN == 126
NUM_CLASSES == 4
HandWidth == 63
MatrixInputWidth == 1260
PoolLimit == 50
JsConfidence == 800
MlpConfidence == 900
ChatConfidence == 600

ConfYes == 850
ConfHello == 800
ConfThanks == 750
ConfV == 700
ConfOk == 700

\* gesture strings of the source, in ASCII:
\*   "None" is "gamjidoeji anheum", "Hello" is "annyeonghaseyo", "Thanks" is "gamsahamnida",
\*   "Yes" is "ye"; "V" and "OK" are as in the source.
NoGesture == [gesture |-> "None", confidence |-> 0, id |-> 0]

\* values handed to the threshold setters
Thresholds == {200, DefaultRecognitionThreshold, 900}
DetectionThresholds == {DefaultDetectionThreshold, 800}

---------------------------------------------------------------------------
(* Inputs: landmark vectors *)

Abs(v) == IF v < 0 THEN -v ELSE v

Point(px, py, pz) == [x |-> px, y |-> py, z |-> pz]
Size(lm) == Cardinality(DOMAIN lm)

\* y of a finger's mcp, pip and tip (y grows downward on the screen)
FingerPoses ==
    { [mcp |-> 3, pip |-> 2, tip |-> 1],    \* straight up
      [mcp |-> 1, pip |-> 2, tip |-> 3],    \* folded
      [mcp |-> 3, pip |-> 2, tip |-> 2],    \* tip level with pip
      [mcp |-> 2, pip |-> 2, tip |-> 1] }   \* pip level with mcp
\* x of the thumb's tip and ip joint and of the wrist
ThumbPoses ==
    { [tip |-> 0, ip |-> 1, wrist |-> 3],   \* tip farther from the wrist
      [tip |-> 2, ip |-> 1, wrist |-> 3],   \* tip nearer
      [tip |-> 5, ip |-> 1, wrist |-> 3] }  \* both at the same distance

MakeHand(t, f) ==
    [i \in 0..(NumLandmarks - 1) |->
        IF i = 0 THEN Point(t.wrist, 4, 0)
        ELSE IF i = 3 THEN Point(t.ip, 3, 0)
        ELSE IF i = 4 THEN Point(t.tip, 2, 0)
        ELSE IF i < 5 THEN Point(2, 4, 0)
        ELSE LET k == (i - 5) \div 4
                 j == (i - 5) % 4
             IN  Point(4 + k,
                       IF j = 0 THEN f[k].mcp
                       ELSE IF j = 3 THEN f[k].tip ELSE f[k].pip,
                       0)]

MainPoses == { p \in FingerPoses : p.tip # p.pip /\ p.pip # p.mcp }
MainThumbs == { t \in ThumbPoses : Abs(t.tip - t.wrist) # Abs(t.ip - t.wrist) }

\* every combination of straight and folded fingers and thumb; the thumb at
\* the boundary with the fingers all alike; one finger at a boundary
Hands ==
    { MakeHand(t, f) : t \in MainThumbs, f \in [0..3 -> MainPoses] }
      \cup { MakeHand(t, [k \in 0..3 |-> q]) :
                t \in ThumbPoses \ MainThumbs, q \in MainPoses }
      \cup { MakeHand([tip |-> 2, ip |-> 1, wrist |-> 3],
                      [k \in 0..3 |-> IF k = e THEN p ELSE q]) :
                e \in 0..3, p \in FingerPoses \ MainPoses, q \in MainPoses }

Resize(h, n) ==
    [i \in 0..(n - 1) |-> IF i \in DOMAIN h THEN h[i] ELSE Point(0, 0, 0)]

OpenHand ==
    MakeHand([tip |-> 0, ip |-> 1, wrist |-> 3],
             [k \in 0..3 |-> [mcp |-> 3, pip |-> 2, tip |-> 1]])

\* vectors that break the 21-landmark contract
MalformedHands ==
    { Resize(OpenHand, n) : n \in (0..MaxLandmarks) \ {NumLandmarks} }

LandmarkInputs == Hands \cup MalformedHands

\* confidences the hand detector reports for a frame
HandConfidences == {300, 900}

---------------------------------------------------------------------------
(* SignRecognizer: the rule classifier (sign_recognition.cpp 49-59, 104-150) *)

isFingerExtended(tip, pip, mcp) == tip.y < pip.y /\ pip.y < mcp.y

isThumbExtended(thumbTip, thumbIp, wrist) ==
    Abs(thumbTip.x - wrist.x) > Abs(thumbIp.x - wrist.x)

\* the five booleans of lines 118-122
indexExtended(lm) == isFingerExtended(lm[8], lm[6], lm[5])
middleExtended(lm) == isFingerExtended(lm[12], lm[10], lm[9])
ringExtended(lm) == isFingerExtended(lm[16], lm[14], lm[13])
pinkyExtended(lm) == isFingerExtended(lm[20], lm[18], lm[17])
thumbExtended(lm) == isThumbExtended(lm[4], lm[3], lm[0])

B2N(b) == IF b THEN 1 ELSE 0

extendedFingers(lm) ==
    B2N(thumbExtended(lm)) + B2N(indexExtended(lm)) + B2N(middleExtended(lm))
      + B2N(ringExtended(lm)) + B2N(pinkyExtended(lm))

\* the landmarks lines 110-122 read
RuleReads == {0, 3, 4, 5, 6, 8, 9, 10, 12, 13, 14, 16, 17, 18, 20}

\* a plausible slip: the V and OK rules without their finger counts
RuleDecisionNoCount(lm) ==
    IF extendedFingers(lm) = 1 /\ indexExtended(lm)
      THEN [gesture |-> "Yes", confidence |-> ConfYes, id |-> 3]
    ELSE IF extendedFingers(lm) = 5
      THEN [gesture |-> "Hello", confidence |-> ConfHello, id |-> 1]
    ELSE IF extendedFingers(lm) = 0
      THEN [gesture |-> "Thanks", confidence |-> ConfThanks, id |-> 2]
    ELSE IF indexExtended(lm) /\ middleExtended(lm) /\ ~ringExtended(lm)
      THEN [gesture |-> "V", confidence |-> ConfV, id |-> 4]
    ELSE IF indexExtended(lm) /\ middleExtended(lm) /\ ringExtended(lm)
      THEN [gesture |-> "OK", confidence |-> ConfOk, id |-> 5]
    ELSE NoGesture

\* lines 131-149: the if/else-if chain over the finger states
RuleDecision(lm) ==
    IF extendedFingers(lm) = 1 /\ indexExtended(lm)
      THEN [gesture |-> "Yes", confidence |-> ConfYes, id |-> 3]
    ELSE IF extendedFingers(lm) = 5
      THEN [gesture |-> "Hello", confidence |-> ConfHello, id |-> 1]
    ELSE IF extendedFingers(lm) = 0
      THEN [gesture |-> "Thanks", confidence |-> ConfThanks, id |-> 2]
    ELSE IF extendedFingers(lm) = 2 /\ indexExtended(lm) /\ middleExtended(lm)
      THEN [gesture |-> "V", confidence |-> ConfV, id |-> 4]
    ELSE IF extendedFingers(lm) = 3 /\ indexExtended(lm)
              /\ middleExtended(lm) /\ ringExtended(lm)
      THEN [gesture |-> "OK", confidence |-> ConfOk, id |-> 5]
    ELSE NoGesture

\* lines 104-150; res is the value returned, reads the landmarks read
recognizeByRules(lm) ==
    IF Size(lm) # NumLandmarks
      THEN [res |-> NoGesture, reads |-> {}]
      ELSE [res |-> RuleDecision(lm), reads |-> RuleReads]

---------------------------------------------------------------------------
(* SignRecognizer: features and network (sign_recognition.cpp 22-47, 177-333) *)

\* vector<float>(n, v): n copies of v
Filled(n, v) == [n |-> n, v |-> v]

\* lines 30-44: the four weight layers and the bias vector initialize builds
InitialWeights ==
    << Filled(210 * 128, fixedValue), Filled(128 * 64, fixedValue),
       Filled(64 * 32, fixedValue), Filled(32 * 5, fixedValue) >>
InitialBiases == Filled(128, fixedBias)

\* A feature is carried as the term that computes it, not as its float value:
\* kind names the computation, a, b, c the landmarks it reads.
Term(k, ia, ib, ic) == [kind |-> k, a |-> ia, b |-> ib, c |-> ic]

RECURSIVE DistanceRow(_, _)
DistanceRow(i, j) ==
    IF j >= NumLandmarks THEN <<>>
    ELSE <<Term("distance", i, j, 0)>> \o DistanceRow(i, j + 1)

\* lines 222-227: for i in 0..20, for j in i+1..20
RECURSIVE PairDistances(_)
PairDistances(i) ==
    IF i >= NumLandmarks THEN <<>>
    ELSE DistanceRow(i, i + 1) \o PairDistances(i + 1)

\* lines 230-234
WristDistances == [i \in 1..20 |-> Term("distance", i, 0, 0)]

fingerTips == <<4, 8, 12, 16, 20>>
fingerPips == <<3, 6, 10, 14, 18>>
fingerMcps == <<2, 5, 9, 13, 17>>

\* lines 237-246
FingerAngles ==
    [i \in 1..5 |-> Term("angle", fingerTips[i], fingerPips[i], fingerMcps[i])]

\* lines 249-256
PalmCentre == << Term("palmX", 0, 4, 0), Term("palmY", 0, 4, 0) >>

\* lines 259-262
Curvatures == [i \in 1..19 |-> Term("angle", i - 1, i, i + 1)]

\* lines 217-282.  The normalisation of lines 265-279 rewrites each value in
\* place and leaves the number of features as it is.
ComplexFeatures ==
    PairDistances(0) \o WristDistances \o FingerAngles \o PalmCentre
      \o Curvatures
extractComplexFeatures(lm) == ComplexFeatures

\* lines 290-332.  Every weight of a layer is the same number, so each of the
\* five output neurons adds up the same products in the same order: the five
\* outputs are one common value, written 1 here.
ForwardPass(features, weights, biases) ==
    [i \in 0..(NeuralOutputWidth - 1) |-> 1]

\* lines 285-333
neuralNetworkInference(features, weights, biases) ==
    IF weights = <<>> \/ Len(features) # NeuralInputWidth
      THEN [i \in 0..(NeuralOutputWidth - 1) |-> 0]
      ELSE ForwardPass(features, weights, biases)

\* lines 190-197: the first index of the largest of outputs[0..4]
RECURSIVE ArgMaxFrom(_, _, _)
ArgMaxFrom(outputs, i, maxIdx) ==
    IF i >= 5 THEN maxIdx
    ELSE ArgMaxFrom(outputs, i + 1,
                    IF outputs[i] > outputs[maxIdx] THEN i ELSE maxIdx)

\* std::exp on the integer outputs of this model, to base 2; exp(0) = 1
Exp2(v) == 2 ^ v

RECURSIVE SumExp(_, _)
SumExp(outputs, i) ==
    IF i >= Size(outputs) THEN 0
    ELSE Exp2(outputs[i]) + SumExp(outputs, i + 1)

\* line 207, indexed from 0
gestures == [i \in 0..4 |-> <<"None", "Hello", "Thanks", "Yes", "V">>[i + 1]]

\* lines 177-214
recognizeWithAdvancedML(lm, weights, biases) ==
    LET features == extractComplexFeatures(lm)
        outputs == neuralNetworkInference(features, weights, biases)
    IN  IF Size(outputs) < 5 THEN NoGesture
        ELSE LET maxIdx == ArgMaxFrom(outputs, 1, 0)
                 confidence ==
                     (1000 * Exp2(outputs[maxIdx])) \div SumExp(outputs, 0)
             IN  IF maxIdx < Size(gestures)
                   THEN [gesture |-> gestures[maxIdx],
                         confidence |-> confidence, id |-> maxIdx]
                   ELSE NoGesture

---------------------------------------------------------------------------
(* SignRecognizer: recognize and recognizeFromPointer (152-174, 437-471) *)

\* a local of recognize on a path that returns before it is assigned
NotComputed == [gesture |-> "", confidence |-> 0, id |-> 0]

\* extractComplexFeatures reads landmarks[0..20]
FeatureReads == 0..(NumLandmarks - 1)

\* a plausible slip: the rule result is preferred before the threshold test
recognizeBodyRuleFirst(lm, threshold, weights, biases) ==
    LET ml == recognizeWithAdvancedML(lm, weights, biases)
        rule == recognizeByRules(lm)
    IN  IF rule.res.confidence > ml.confidence
          THEN [res |-> rule.res, ml |-> ml, rule |-> rule.res,
                reads |-> FeatureReads \cup rule.reads]
          ELSE [res |-> ml, ml |-> ml, rule |-> rule.res,
                reads |-> FeatureReads \cup rule.reads]

\* a plausible slip: the fallback returns the rule result whatever it is
recognizeBodyAlwaysRule(lm, threshold, weights, biases) ==
    LET ml == recognizeWithAdvancedML(lm, weights, biases)
        rule == recognizeByRules(lm)
    IN  IF ml.confidence >= threshold
          THEN [res |-> ml, ml |-> ml, rule |-> NotComputed,
                reads |-> FeatureReads]
          ELSE [res |-> rule.res, ml |-> ml, rule |-> rule.res,
                reads |-> FeatureReads \cup rule.reads]

\* a plausible slip: the neural result is returned whatever its confidence
recognizeBodyNeuralOnly(lm, threshold, weights, biases) ==
    LET ml == recognizeWithAdvancedML(lm, weights, biases)
    IN  [res |-> ml, ml |-> ml, rule |-> NotComputed, reads |-> FeatureReads]

\* lines 157-173: recognize after its length check
recognizeBody(lm, threshold, weights, biases) ==
    LET ml == recognizeWithAdvancedML(lm, weights, biases)
        rule == recognizeByRules(lm)
    IN  IF ml.confidence >= threshold
          THEN [res |-> ml, ml |-> ml, rule |-> NotComputed,
                reads |-> FeatureReads]
        ELSE IF rule.res.confidence > ml.confidence
          THEN [res |-> rule.res, ml |-> ml, rule |-> rule.res,
                reads |-> FeatureReads \cup rule.reads]
          ELSE [res |-> ml, ml |-> ml, rule |-> rule.res,
                reads |-> FeatureReads \cup rule.reads]

\* a plausible slip: no length check, the missing landmarks read past the end
recognizeUnchecked(lm, threshold, weights, biases) ==
    recognizeBody(Resize(lm, NumLandmarks), threshold, weights, biases)

\* lines 152-174; res is the value returned, ml the local mlResult, reads the
\* landmarks read
recognize(lm, threshold, weights, biases) ==
    IF Size(lm) # NumLandmarks
      THEN [res |-> NoGesture, ml |-> NotComputed, rule |-> NotComputed,
            reads |-> {}]
      ELSE recognizeBody(lm, threshold, weights, biases)

\* operator<< of a float: up to six significant digits, trailing zeros dropped;
\* of the thousandths c, the integer part and the digits after the point
FormatFloat(c) ==
    LET f == c % 1000
    IN  [int |-> c \div 1000,
         frac |-> IF f = 0 THEN <<>>
                  ELSE IF f % 100 = 0 THEN <<f \div 100>>
                  ELSE IF f % 10 = 0 THEN <<f \div 100, (f \div 10) % 10>>
                  ELSE <<f \div 100, (f \div 10) % 10, f % 10>>]

\* the JSON text {"gesture":g,"confidence":c,"id":i}, field by field
Json(g, c, i) == [gesture |-> g, confidence |-> c, id |-> i]

\* line 439: the literal with "confidence":0.0
NoGestureJson == Json("None", [int |-> 0, frac |-> <<0>>], 0)

\* lines 443-452: 21 landmarks from 42 floats, z = 0
landmarkVec(buf) ==
    [i \in 0..(NumLandmarks - 1) |-> Point(buf[i * 2], buf[i * 2 + 1], 0)]

\* lines 454-462: recognize on the converted vector, the result as JSON
recognizeVec(vec, threshold, weights, biases) ==
    LET r == recognize(vec, threshold, weights, biases)
    IN  [json |-> Json(r.res.gesture, FormatFloat(r.res.confidence), r.res.id),
         res |-> r.res, ml |-> r.ml, rule |-> r.rule, lm |-> vec,
         reads |-> r.reads]

\* lines 437-463; json is the string returned, res the RecognitionResult it
\* was written from, lm the local landmarkVec (built once, then passed on)
recognizeFromPointer(buf, cnt, threshold, weights, biases) ==
    IF cnt # PointerCount
      THEN [json |-> NoGestureJson, res |-> NoGesture, ml |-> NotComputed,
            rule |-> NotComputed, lm |-> <<>>, reads |-> {}]
      ELSE CHOOSE out \in
             { recognizeVec(vec, threshold, weights, biases) :
                 vec \in {landmarkVec(buf)} } : TRUE

\* the 42 floats a caller writes for a hand: x and y of each landmark
Flatten(h) ==
    [k \in 0..(PointerCount - 1) |->
        IF k % 2 = 0 THEN h[k \div 2].x ELSE h[k \div 2].y]

---------------------------------------------------------------------------
(* The JavaScript rule recognizers (ai-sign-detector-example.tsx 65-112,
   part_004 56-116) *)

\* tsx lines 75-83: thumb, index, middle, ring, pinky of a hand that has the
\* landmarks read
isExtended(lm) ==
    [i \in 1..5 |->
        IF i = 1
          THEN Abs(lm[fingerTips[i]].x - lm[0].x)
                 > Abs(lm[fingerPips[i]].x - lm[0].x)
          ELSE lm[fingerTips[i]].y < lm[fingerPips[i]].y]

\* the landmarks lines 75-83 read
JsReads == {0} \cup { fingerTips[i] : i \in 1..5 } \cup { fingerPips[i] : i \in 1..5 }

\* tsx lines 85-111, confidences in thousandths.  A Korean label is written
\* by its Latin part where it has one and romanised where it has none:
\* "al su eobseum" is the label of an unknown pose, "gamjidoeji anheum" the
\* label of no detection.
JsDecision(e) ==
    LET cnt == Cardinality({ i \in 1..5 : e[i] })
    IN  IF cnt = 5 THEN [gesture |-> "(Open)", confidence |-> JsConfidence, id |-> 1]
        ELSE IF cnt = 0
          THEN [gesture |-> "(Fist)", confidence |-> JsConfidence, id |-> 2]
        ELSE IF e[2] /\ e[3] /\ ~e[4] /\ ~e[5]
          THEN [gesture |-> "(V)", confidence |-> JsConfidence, id |-> 3]
        ELSE IF e[2] /\ ~e[3] /\ ~e[4] /\ ~e[5]
          THEN [gesture |-> "(Point)", confidence |-> JsConfidence, id |-> 4]
        ELSE IF e[1] /\ ~e[2] /\ ~e[3] /\ ~e[4] /\ ~e[5]
          THEN [gesture |-> "(ThumbUp)", confidence |-> JsConfidence, id |-> 6]
        ELSE IF e[1] /\ e[2] /\ e[5] /\ ~e[3] /\ ~e[4]
          THEN [gesture |-> "(ILY)", confidence |-> JsConfidence, id |-> 5]
        ELSE [gesture |-> "al su eobseum", confidence |-> JsConfidence, id |-> 0]

NotDetected == [gesture |-> "gamjidoeji anheum", confidence |-> 0, id |-> 0]

\* tsx lines 65-112.  Reading .x or .y of a landmark the array lacks throws
\* a TypeError.
recognizeWithJavaScript(lm) ==
    IF Size(lm) = 0 THEN [threw |-> FALSE, res |-> NotDetected]
    ELSE IF ~(JsReads \subseteq DOMAIN lm)
      THEN [threw |-> TRUE, res |-> NotComputed]
      ELSE [threw |-> FALSE, res |-> JsDecision(isExtended(lm))]

\* part_004 lines 56-116, confidences in thousandths; the value null is
\* NotComputed
mlRecognizeByRules(lm) ==
    IF ~(RuleReads \subseteq DOMAIN lm) THEN [threw |-> TRUE, res |-> NotComputed]
    ELSE [threw |-> FALSE,
          res |-> IF extendedFingers(lm) = 1 /\ indexExtended(lm)
                    THEN [gesture |-> "ye", confidence |-> 800, id |-> 3]
                  ELSE IF extendedFingers(lm) = 5
                    THEN [gesture |-> "annyeonghaseyo", confidence |-> 750, id |-> 1]
                  ELSE IF extendedFingers(lm) = 0
                    THEN [gesture |-> "gamsahamnida", confidence |-> 700, id |-> 2]
                  ELSE NotComputed]

---------------------------------------------------------------------------
(* SignRecognizer: the state machine *)

NoJson == Json("", [int |-> 0, frac |-> <<>>], 0)

\* lines 15-17 and the empty static vectors of lines 12-13
InitRecognizer ==
    /\ neuralWeights = <<>>
    /\ neuralBiases = Filled(0, 0)
    /\ detectionThreshold = DefaultDetectionThreshold
    /\ recognitionThreshold = DefaultRecognitionThreshold
    /\ call = "none"
    /\ landmarks = <<>>
    /\ count = 0
    /\ handConfidence = 0
    /\ mlResult = NotComputed
    /\ ruleResult = NotComputed
    /\ result = NotComputed
    /\ json = NoJson
    /\ reads = {}

\* landmarks .. reads describe the arguments and the return value of the
\* last recognize or recognizeFromPointer; the other operations have none
NoCallObserved ==
    /\ landmarks' = <<>>
    /\ count' = 0
    /\ handConfidence' = 0
    /\ mlResult' = NotComputed
    /\ ruleResult' = NotComputed
    /\ result' = NotComputed
    /\ json' = NoJson
    /\ reads' = {}

\* a plausible slip: the tables are not cleared before they are filled
initializeNoClear ==
    /\ neuralWeights' = neuralWeights \o InitialWeights
    /\ neuralBiases' = InitialBiases
    /\ call' = "initialize"
    /\ NoCallObserved
    /\ UNCHANGED <<detectionThreshold, recognitionThreshold>>
    /\ UNCHANGED notRecognizerVars

\* lines 22-47
initialize ==
    /\ neuralWeights' = InitialWeights
    /\ neuralBiases' = InitialBiases
    /\ call' = "initialize"
    /\ NoCallObserved
    /\ UNCHANGED <<detectionThreshold, recognitionThreshold>>
    /\ UNCHANGED notRecognizerVars

\* lines 465-467
setDetectionThreshold(threshold) ==
    /\ detectionThreshold' = threshold
    /\ call' = "setDetectionThreshold"
    /\ NoCallObserved
    /\ UNCHANGED <<neuralWeights, neuralBiases, recognitionThreshold>>
    /\ UNCHANGED notRecognizerVars

\* lines 469-471
setRecognitionThreshold(threshold) ==
    /\ recognitionThreshold' = threshold
    /\ call' = "setRecognitionThreshold"
    /\ NoCallObserved
    /\ UNCHANGED <<neuralWeights, neuralBiases, detectionThreshold>>
    /\ UNCHANGED notRecognizerVars

\* recognize called on the landmarks of a frame the detector reported with
\* confidence conf; recognize has no parameter for conf
Recognize(lm, conf) ==
    \E r \in {recognize(lm, recognitionThreshold, neuralWeights, neuralBiases)} :
        /\ call' = "recognize"
        /\ landmarks' = lm
        /\ handConfidence' = conf
        /\ mlResult' = r.ml
        /\ ruleResult' = r.rule
        /\ result' = r.res
        /\ reads' = r.reads
        /\ count' = 0
        /\ json' = NoJson
        /\ UNCHANGED <<neuralWeights, neuralBiases, detectionThreshold,
                       recognitionThreshold>>
        /\ UNCHANGED notRecognizerVars

\* recognizeFromPointer called on the floats of such a frame
RecognizeFromPointer(buf, cnt, conf) ==
    \E r \in {recognizeFromPointer(buf, cnt, recognitionThreshold,
                                    neuralWeights, neuralBiases)} :
        /\ call' = "recognizeFromPointer"
        /\ count' = cnt
        /\ landmarks' = r.lm
        /\ handConfidence' = conf
        /\ mlResult' = r.ml
        /\ ruleResult' = r.rule
        /\ result' = r.res
        /\ json' = r.json
        /\ reads' = r.reads
        /\ UNCHANGED <<neuralWeights, neuralBiases, detectionThreshold,
                       recognitionThreshold>>
        /\ UNCHANGED notRecognizerVars

\* the floats of every combination of straight and folded fingers and thumb
PointerBuffers ==
    { Flatten(MakeHand(t, f)) : t \in MainThumbs, f \in [0..3 -> MainPoses] }

\* counts that break the 42-float contract
MalformedCounts == { 2 * n : n \in (0..MaxLandmarks) \ {NumLandmarks} }

NextRecognizer ==
    \/ initialize
    \/ \E t \in DetectionThresholds : setDetectionThreshold(t)
    \/ \E t \in Thresholds : setRecognitionThreshold(t)
    \/ \E lm \in LandmarkInputs, conf \in HandConfidences : Recognize(lm, conf)
    \/ \E buf \in PointerBuffers, conf \in HandConfidences :
          RecognizeFromPointer(buf, PointerCount, conf)
    \/ \E buf \in {Flatten(OpenHand)}, cnt \in MalformedCounts,
             conf \in HandConfidences :
          RecognizeFromPointer(buf, cnt, conf)

---------------------------------------------------------------------------
(* SignRecognition: scaler and MLP (sign_recognition.h 113-116, cpp 723-782) *)

\* vector<float>(n, v) and new Array(n).fill(v)
Vector(n, v) == [i \in 1..n |-> v]

\* lengths and entries of the arrays handed to setScaler
ScalerLengths == {0} \cup ((D_IN - 1)..MaxScalerLen)
MeanArrs == { Vector(n, v) : n \in ScalerLengths, v \in {1, 2} }
ScaleArrs == { Vector(n, v) : n \in ScalerLengths, v \in {0, 2} }

\* a plausible slip: >= at line 777, which keeps the last largest logit
RECURSIVE ArgMaxLogitsLast(_, _, _)
ArgMaxLogitsLast(logits, i, argmax) ==
    IF i >= NUM_CLASSES THEN argmax
    ELSE ArgMaxLogitsLast(logits, i + 1,
                          IF logits[i] >= logits[argmax] THEN i ELSE argmax)

\* lines 771-781: the first index of the largest logit
RECURSIVE ArgMaxLogits(_, _, _)
ArgMaxLogits(logits, i, argmax) ==
    IF i >= NUM_CLASSES THEN argmax
    ELSE ArgMaxLogits(logits, i + 1,
                      IF logits[i] > logits[argmax] THEN i ELSE argmax)

\* logits[0..3] as lines 741-769 compute them from the standardised input.
\* The weights W1..B3 are in gesture_weights.h, which the sources lack: the
\* logits are any of these vectors.
LogitVectors ==
    { [i \in 0..(NUM_CLASSES - 1) |-> 0],
      [i \in 0..(NUM_CLASSES - 1) |-> IF i \in {1, 2} THEN 3 ELSE 1],
      [i \in 0..(NUM_CLASSES - 1) |-> i] }

\* lines 738-782
predictMLP(featureArr, logits) ==
    IF Len(featureArr) # D_IN THEN -1 ELSE ArgMaxLogits(logits, 1, 0)

\* lines 742-745: the standardisation divides entry i by scale[i]
DividesByZero(featureArr, scaleVec) ==
    /\ Len(featureArr) = D_IN
    /\ \E i \in 1..D_IN : scaleVec[i] = 0

---------------------------------------------------------------------------
(* WASMSignRecognizer: the feature vector of the MLP (part_003 1590-1691) *)

\* The quotient n / sqrt(d2) of normalizeLandmarks, kept as its two integers;
\* 0 divided by anything is 0.
Quot(n, d2) == IF n = 0 THEN [num |-> 0, den2 |-> 1] ELSE [num |-> n, den2 |-> d2]
Zero == Quot(0, 1)

\* a plausible slip: the reference point taken from pts, not from centered
normalizeLandmarksRefUncentered(pts) ==
    IF Size(pts) = 0 THEN [threw |-> FALSE, out |-> <<>>]
    ELSE IF 9 \notin DOMAIN pts THEN [threw |-> TRUE, out |-> <<>>]
    ELSE LET base == pts[0]
             centered == [i \in DOMAIN pts |->
                            Point(pts[i].x - base.x, pts[i].y - base.y,
                                  pts[i].z - base.z)]
             ref == pts[9]
             d2 == ref.x * ref.x + ref.y * ref.y + ref.z * ref.z
             scale2 == IF d2 = 0 THEN 1 ELSE d2
         IN  [threw |-> FALSE,
              out |-> [i \in DOMAIN pts |->
                         Point(Quot(centered[i].x, scale2),
                               Quot(centered[i].y, scale2),
                               Quot(centered[i].z, scale2))]]

\* a plausible slip: no "|| 1.0" at line 1684, so that a zero distance divides
normalizeLandmarksNoFallback(pts) ==
    IF Size(pts) = 0 THEN [threw |-> FALSE, out |-> <<>>]
    ELSE IF 9 \notin DOMAIN pts THEN [threw |-> TRUE, out |-> <<>>]
    ELSE LET base == pts[0]
             centered == [i \in DOMAIN pts |->
                            Point(pts[i].x - base.x, pts[i].y - base.y,
                                  pts[i].z - base.z)]
             ref == centered[9]
             d2 == ref.x * ref.x + ref.y * ref.y + ref.z * ref.z
         IN  [threw |-> FALSE,
              out |-> [i \in DOMAIN pts |->
                         Point(Quot(centered[i].x, d2),
                               Quot(centered[i].y, d2),
                               Quot(centered[i].z, d2))]]

\* lines 1668-1691.  centered[9] of a hand with fewer than 10 points is
\* undefined and reading ref.x throws a TypeError.
normalizeLandmarks(pts) ==
    IF Size(pts) = 0 THEN [threw |-> FALSE, out |-> <<>>]
    ELSE IF 9 \notin DOMAIN pts THEN [threw |-> TRUE, out |-> <<>>]
    ELSE LET base == pts[0]
             centered == [i \in DOMAIN pts |->
                            Point(pts[i].x - base.x, pts[i].y - base.y,
                                  pts[i].z - base.z)]
             ref == centered[9]
             d2 == ref.x * ref.x + ref.y * ref.y + ref.z * ref.z
             scale2 == IF d2 = 0 THEN 1 ELSE d2
         IN  [threw |-> FALSE,
              out |-> [i \in DOMAIN pts |->
                         Point(Quot(centered[i].x, scale2),
                               Quot(centered[i].y, scale2),
                               Quot(centered[i].z, scale2))]]

\* lines 1644-1646: x, y, z of each normalised point, in order
Pushed(norm) ==
    [k \in 1..(3 * Size(norm)) |->
        LET p == norm[(k - 1) \div 3]
        IN  IF (k - 1) % 3 = 0 THEN p.x
            ELSE IF (k - 1) % 3 = 1 THEN p.y ELSE p.z]

\* lines 1631-1640: the last hand carrying the label, if any
PickHand(results, label) ==
    LET idx == { i \in 1..Len(results.multiHandLandmarks) :
                   /\ i <= Len(results.multiHandedness)
                   /\ results.multiHandedness[i] = label }
    IN  IF idx = {} THEN [present |-> FALSE, pts |-> <<>>]
        ELSE [present |-> TRUE,
              pts |-> results.multiHandLandmarks[
                          CHOOSE i \in idx : \A j \in idx : j <= i]]

\* lines 1642-1650 and 1653-1661: the slot of one hand
HandSlot(hand) ==
    IF hand.present
      THEN LET norm == normalizeLandmarks(hand.pts)
           IN  [threw |-> norm.threw, vec |-> Pushed(norm.out)]
      ELSE [threw |-> FALSE, vec |-> Vector(HandWidth, Zero)]

\* lines 1620-1664
convertLandmarksToVector(results) ==
    IF results.absent THEN [threw |-> FALSE, vec |-> Vector(D_IN, Zero)]
    ELSE LET left == HandSlot(PickHand(results, "Left"))
             right == HandSlot(PickHand(results, "Right"))
         IN  IF left.threw \/ right.threw
               THEN [threw |-> TRUE, vec |-> <<>>]
               ELSE [threw |-> FALSE, vec |-> left.vec \o right.vec]

\* lines 1590-1616, for a recognizer whose module is loaded
predictWithMLP(results, logits) ==
    LET c == convertLandmarksToVector(results)
    IN  IF c.threw THEN [kind |-> "TypeError", idx |-> 0, vec |-> <<>>]
        ELSE [kind |-> "value", idx |-> predictMLP(c.vec, logits),
              vec |-> c.vec]

---------------------------------------------------------------------------
(* Inputs of the MLP: detection results *)

\* a hand at rest: the wrist at (1, 1, 0), landmark 9 at distance 5 from it
RestHand ==
    [i \in 0..(NumLandmarks - 1) |->
        IF i = 0 THEN Point(1, 1, 0)
        ELSE IF i = 9 THEN Point(4, 5, 0)
        ELSE Point(i % 3, 2, 1)]
\* a hand whose landmark 9 coincides with the wrist
FlatHand ==
    [i \in 0..(NumLandmarks - 1) |-> Point(2, 2, IF i = 9 THEN 0 ELSE i % 2)]

\* hands of 21 points and hands cut short
MlpHands ==
    {RestHand, FlatHand} \cup { Resize(RestHand, n) : n \in ShortHandSizes }

NoResults == [absent |-> TRUE, multiHandLandmarks |-> <<>>,
              multiHandedness |-> <<>>]
Results(hands, labels) ==
    [absent |-> FALSE, multiHandLandmarks |-> hands, multiHandedness |-> labels]

Labels == {"Left", "Right"}

\* no results; no hand; one hand with or without its label; two hands
DetectionResults ==
    {NoResults, Results(<<>>, <<>>)}
      \cup { Results(<<h>>, <<l>>) : h \in MlpHands, l \in Labels }
      \cup { Results(<<h>>, <<>>) : h \in {RestHand} }
      \cup { Results(<<h, g>>, <<l, m>>) :
               h \in {RestHand, FlatHand},
               g \in {RestHand, Resize(RestHand, NumLandmarks - 1)},
               l \in Labels, m \in Labels }

---------------------------------------------------------------------------
(* SignRecognition and its wrapper: the state machine *)

NoReturn == [kind |-> "none", idx |-> 0]

\* lines 723-726
InitMLP ==
    /\ mean = Vector(D_IN, 0)
    /\ scale = Vector(D_IN, 1)
    /\ mlpCall = "none"
    /\ meanArg = <<>>
    /\ scaleArg = <<>>
    /\ oldMean = <<>>
    /\ oldScale = <<>>
    /\ detection = NoResults
    /\ featureVec = <<>>
    /\ mlpReturn = NoReturn
    /\ mlpLogits = <<>>

\* lines 732-735, reached through the wrapper of part_003 1575-1588, which
\* copies both arrays entry by entry
setScaler(meanArr, scaleArr) ==
    /\ mean' = IF Len(meanArr) = D_IN THEN meanArr ELSE mean
    /\ scale' = IF Len(scaleArr) = D_IN THEN scaleArr ELSE scale
    /\ mlpCall' = "setScaler"
    /\ meanArg' = meanArr
    /\ scaleArg' = scaleArr
    /\ oldMean' = mean
    /\ oldScale' = scale
    /\ detection' = NoResults
    /\ featureVec' = <<>>
    /\ mlpReturn' = NoReturn
    /\ mlpLogits' = <<>>
    /\ UNCHANGED notMlpVars

PredictWithMLP(results, logits) ==
    \E r \in {predictWithMLP(results, logits)} :
        /\ mlpCall' = "predictWithMLP"
        /\ detection' = results
        /\ featureVec' = r.vec
        /\ mlpReturn' = [kind |-> r.kind, idx |-> r.idx]
        /\ mlpLogits' = IF r.kind = "value" /\ Len(r.vec) = D_IN
                          THEN logits ELSE <<>>
        /\ meanArg' = <<>>
        /\ scaleArg' = <<>>
        /\ oldMean' = <<>>
        /\ oldScale' = <<>>
        /\ UNCHANGED <<mean, scale>>
        /\ UNCHANGED notMlpVars

NextMLP ==
    \/ \E meanArr \in MeanArrs, scaleArr \in ScaleArrs :
          setScaler(meanArr, scaleArr)
    \/ \E results \in DetectionResults, logits \in LogitVectors :
          PredictWithMLP(results, logits)

---------------------------------------------------------------------------
(* SignRecognizer: the large-matrix network (sign_recognition.cpp 786-1044) *)

\* The static seed of line 982 and the state of std::rand are named by the
\* number of calls that have advanced them: every call draws the same number
\* of values from each, and the generator of line 984 has period 2^31, so
\* the seed differs from call to call.  0 is the initial seed 42.
InitMatrix ==
    /\ seed = 0
    /\ randState = 0
    /\ matrixLandmarks = <<>>
    /\ matrixResult = NotComputed
    /\ answers = {}

\* hands handed to recognizeWithAdvancedMatrixML
MatrixHands ==
    { MakeHand(t, [k \in 0..3 |-> q]) : t \in MainThumbs, q \in MainPoses }

\* lines 825-974: 1260 features; those of lines 887-894 are drawn from
\* std::rand
extractAdvancedMatrixFeatures(lm, rand) ==
    [width |-> MatrixInputWidth, lm |-> lm, rand |-> rand]

\* the five outputs lines 988-1043 can compute; the weights and biases are
\* drawn from the seed as it stands when the call begins
MatrixOutputs ==
    { [i \in 0..(NeuralOutputWidth - 1) |-> 0],
      [i \in 0..(NeuralOutputWidth - 1) |-> IF i = 2 THEN 1 ELSE 0],
      [i \in 0..(NeuralOutputWidth - 1) |-> IF i = 4 THEN 1 ELSE 0] }

\* lines 976-1044
advancedMatrixNeuralNetwork(features, outputs) ==
    IF features.width # MatrixInputWidth
      THEN [i \in 0..(NeuralOutputWidth - 1) |-> 0]
      ELSE outputs

\* lines 793-822
interpretOutputs(outputs) ==
    IF Size(outputs) < 5 THEN NoGesture
    ELSE LET maxIdx == ArgMaxFrom(outputs, 1, 0)
             confidence ==
                 (1000 * Exp2(outputs[maxIdx])) \div SumExp(outputs, 0)
         IN  IF maxIdx < Size(gestures)
               THEN [gesture |-> gestures[maxIdx],
                     confidence |-> confidence, id |-> maxIdx]
               ELSE NoGesture

\* lines 786-823; outputs is what the network computes from the features
\* with the weights of this call
recognizeWithAdvancedMatrixML(lm, outputs) ==
    /\ seed < MaxMatrixCalls
    /\ \E r \in {interpretOutputs(
                   advancedMatrixNeuralNetwork(
                     extractAdvancedMatrixFeatures(lm, randState), outputs))} :
          /\ matrixResult' = r
          /\ answers' = answers \cup {[lm |-> lm, res |-> r]}
    /\ matrixLandmarks' = lm
    /\ seed' = seed + 1
    /\ randState' = randState + 1
    /\ UNCHANGED notMatrixVars

NextMatrix ==
    \E lm \in MatrixHands, outputs \in MatrixOutputs :
        recognizeWithAdvancedMatrixML(lm, outputs)

---------------------------------------------------------------------------
(* The page: recording and the processFrame loop
   (ai-sign-detector-example.tsx 276-310, 337-471; part_003 1494-1570) *)

Modes == {"WASM_RULE", "JS_RULE", "WASM_MLP"}

\* currentResult when it is null
NullResult == [gesture |-> "null", confidence |-> 0, id |-> 0]

\* part_003 lines 1502 and 1568; "memori ereo" is the label of a memory error
NotInitialized == [gesture |-> "chogihwa andoem", confidence |-> 0, id |-> 0]
MemoryError == [gesture |-> "memori ereo", confidence |-> 0, id |-> 0]

\* tsx lines 24-30: the display label of each class
MLP_LABELS ==
    [i \in 0..3 |->
        <<"annyeong(jumeok)", "saranghae", "bangawo", "gomawo">>[i + 1]]

\* JSON.parse of the digits FormatFloat wrote, in thousandths
ParseFloat(f) ==
    f.int * 1000
      + (IF Len(f.frac) >= 1 THEN f.frac[1] * 100 ELSE 0)
      + (IF Len(f.frac) >= 2 THEN f.frac[2] * 10 ELSE 0)
      + (IF Len(f.frac) >= 3 THEN f.frac[3] ELSE 0)

\* part_003 line 1559
ParseJson(j) ==
    [gesture |-> j.gesture, confidence |-> ParseFloat(j.confidence), id |-> j.id]

\* part_003 lines 1509-1517: x and y of the landmarks the array has, 0 for
\* the others
FillCache(lm) ==
    [k \in 0..(PointerCount - 1) |->
        IF (k \div 2) \in DOMAIN lm
          THEN (IF k % 2 = 0 THEN lm[k \div 2].x ELSE lm[k \div 2].y)
          ELSE 0]

\* what can go wrong inside recognizeFast on a frame of the page: _malloc
\* returns 0 (line 1527), no memory buffer is found (line 1542)
Failures == {"none", "malloc", "buffer"}

\* and with a module that is not the one of this repository:
\* recognizeFromPointer throws (line 1550), or returns a string JSON.parse
\* rejects (line 1559).  The strings of sign_recognition.cpp 439-459 always
\* parse.
PoolFailures == Failures \cup {"recognize", "parse"}

Pointers == 1..MaxLoops

\* part_003 lines 1494-1570 for an initialised recognizer.  res is the value
\* the promise resolves with, pool and live the pool and the allocated
\* pointers afterwards, cache the landmarkDataCache.
recognizeFast(lm, failAt, pool, live, threshold, weights, biases) ==
    LET cache == FillCache(lm)
        pooled == Len(pool) > 0
        ptr == IF pooled THEN pool[Len(pool)]
               ELSE IF failAt = "malloc" THEN 0
               ELSE CHOOSE q \in Pointers \ live :
                       \A o \in Pointers \ live : q <= o
        rest == IF pooled THEN SubSeq(pool, 1, Len(pool) - 1) ELSE pool
        held == IF ptr = 0 \/ pooled THEN live ELSE live \cup {ptr}
        room == Len(rest) < PoolLimit
    IN  IF ptr = 0
          THEN [res |-> MemoryError, pool |-> rest, live |-> held,
                cache |-> cache, ptr |-> ptr]
        ELSE IF failAt \in {"buffer", "recognize"}
          THEN [res |-> MemoryError, pool |-> rest, live |-> held \ {ptr},
                cache |-> cache, ptr |-> ptr]
        ELSE LET out == recognizeFromPointer(cache, PointerCount, threshold,
                                             weights, biases)
             IN  [res |-> IF failAt = "parse" THEN MemoryError
                          ELSE ParseJson(out.json),
                  pool |-> IF room THEN Append(rest, ptr) ELSE rest,
                  live |-> IF room /\ failAt # "parse"
                             THEN held ELSE held \ {ptr},
                  cache |-> cache, ptr |-> ptr]

\* tsx lines 424-433
MlpFrameResult(mlpIdx) ==
    IF mlpIdx >= 0 /\ mlpIdx < 4
      THEN [text |-> MLP_LABELS[mlpIdx],
            res |-> [gesture |-> MLP_LABELS[mlpIdx],
                     confidence |-> MlpConfidence, id |-> mlpIdx]]
      ELSE [text |-> "?", res |-> [gesture |-> "?", confidence |-> 0, id |-> -1]]

\* tsx lines 337-355: the gesture of the message addChatMessage appends to
\* the chat, "" when it appends none, and lastGestureRef afterwards.  The
\* chat itself is a list nothing reads but the page's rendering.
addChatMessage(res, last) ==
    IF res.gesture \in {"gamjidoeji anheum", "?", "-", "al su eobseum"}
         \/ res.gesture = last
      THEN [added |-> "", last |-> last]
      ELSE [added |-> res.gesture, last |-> res.gesture]

\* hands the detector reports: open, the index finger with its pip level
\* with its mcp and the others folded, and an open hand cut to 9 points
FrameHands ==
    { OpenHand,
      MakeHand([tip |-> 2, ip |-> 1, wrist |-> 3],
               [k \in 0..3 |-> IF k = 0 THEN [mcp |-> 2, pip |-> 2, tip |-> 1]
                                        ELSE [mcp |-> 1, pip |-> 2, tip |-> 3]]),
      Resize(OpenHand, 9) }

\* logits of the MLP for a frame: all equal, and rising with the index
FrameLogits ==
    { [i \in 0..(NUM_CLASSES - 1) |-> 0], [i \in 0..(NUM_CLASSES - 1) |-> i] }

\* what detector.detect resolves with: null, or one hand
FrameDetections ==
    {NoResults} \cup { Results(<<h>>, <<"Right">>) : h \in FrameHands }

\* A processFrame invocation in flight is either a callback handed to
\* requestAnimationFrame ("scheduled") or suspended at await detector.detect
\* with the mode it read at line 391; frames counts the invocations of each
\* kind.
FrameKinds == {"scheduled"} \cup Modes
InFlight == frames["scheduled"] + frames["WASM_RULE"] + frames["JS_RULE"]
              + frames["WASM_MLP"]
Awaiting == InFlight - frames["scheduled"]

\* kind: "result", "noHand" or "error"; failed: recognizeFast ran into one of
\* its Failures; fresh: what the frame's input gives on a recognizer that has
\* processed no frame before; chat: the gesture of the chat message added
NoOutcome ==
    [kind |-> "none", failed |-> FALSE, fresh |-> NullResult, chat |-> ""]

InitFrame ==
    /\ isLoading = TRUE
    /\ recognizerReady = FALSE
    /\ isRecording = FALSE
    /\ recognitionMode = "WASM_RULE"
    /\ frames = [k \in FrameKinds |-> 0]
    /\ currentResult = NullResult
    /\ mlpResult = "-"
    /\ lastGesture = ""
    /\ memoryPool = <<>>
    /\ heap = {}
    /\ landmarkDataCache = [k \in 0..(PointerCount - 1) |-> 0]
    /\ frameOutcome = NoOutcome

\* tsx lines 276-310 with part_003 1401-1458: the effect that creates the
\* detector and the recognizer.  success is what recognizer.initialize
\* returns.  The scaler comes from /models/scaler.json, which the sources
\* lack: it is set to some mean and scale of D_IN entries.
init(success) ==
    /\ isLoading
    /\ isLoading' = FALSE
    /\ recognizerReady' = success
    /\ IF success
         THEN /\ neuralWeights' = InitialWeights
              /\ neuralBiases' = InitialBiases
              /\ detectionThreshold' = DefaultDetectionThreshold
              /\ recognitionThreshold' = DefaultRecognitionThreshold
         ELSE UNCHANGED <<neuralWeights, neuralBiases, detectionThreshold,
                          recognitionThreshold>>
    /\ IF success
         THEN /\ mean' = Vector(D_IN, 1)
              /\ scale' = Vector(D_IN, 2)
         ELSE UNCHANGED <<mean, scale>>
    /\ UNCHANGED <<call, landmarks, count, handConfidence, mlResult,
                   ruleResult, result, json, reads>>
    /\ UNCHANGED <<mlpCall, meanArg, scaleArg, oldMean, oldScale, detection,
                   featureVec, mlpReturn, mlpLogits>>
    /\ UNCHANGED <<isRecording, recognitionMode, frames, currentResult,
                   mlpResult, lastGesture, memoryPool, heap,
                   landmarkDataCache, frameOutcome>>
    /\ UNCHANGED <<matrixVars, normVars, poolVars, detectorVars, wrapperVars>>

notFrameVars == <<recognizerVars, mlpVars, matrixVars, normVars, poolVars,
                  detectorVars, wrapperVars>>

\* tsx lines 385-399: processFrame up to its await; the kind of invocation
\* it becomes, "" when it returns at line 386
enter(recording) ==
    IF ~recording THEN ""
    ELSE IF ~recognizerReady THEN "scheduled"
    ELSE recognitionMode

\* frames with one invocation less of kind from and one more of kind to
Moved(from, to) ==
    [k \in FrameKinds |->
        frames[k] - (IF k = from THEN 1 ELSE 0) + (IF k = to THEN 1 ELSE 0)]

\* tsx lines 364-369; the button is on the page once isLoading is false and
\* calls startRecording while isRecording is false, stopRecording while it is
\* true (line 607)
startRecording ==
    /\ ~isLoading
    /\ ~isRecording
    /\ InFlight < MaxLoops
    /\ frames' = Moved("", enter(TRUE))
    /\ isRecording' = TRUE
    /\ UNCHANGED <<isLoading, recognizerReady, recognitionMode, currentResult,
                   mlpResult, lastGesture, memoryPool, heap,
                   landmarkDataCache, frameOutcome>>
    /\ UNCHANGED notFrameVars

\* tsx lines 371-378
stopRecording ==
    /\ ~isLoading
    /\ isRecording
    /\ isRecording' = FALSE
    /\ currentResult' = NullResult
    /\ mlpResult' = "-"
    /\ lastGesture' = ""
    /\ UNCHANGED <<isLoading, recognizerReady, recognitionMode, frames,
                   memoryPool, heap, landmarkDataCache, frameOutcome>>
    /\ UNCHANGED notFrameVars

\* tsx lines 380-383
clearChat ==
    /\ ~isLoading
    /\ lastGesture' = ""
    /\ UNCHANGED <<isLoading, recognizerReady, isRecording, recognitionMode,
                   frames, currentResult, mlpResult, memoryPool, heap,
                   landmarkDataCache, frameOutcome>>
    /\ UNCHANGED notFrameVars

\* tsx lines 262-275
handleModeChange(mode) ==
    /\ ~isLoading
    /\ recognitionMode' = mode
    /\ UNCHANGED <<isLoading, recognizerReady, isRecording, frames,
                   currentResult, mlpResult, lastGesture, memoryPool, heap,
                   landmarkDataCache, frameOutcome>>
    /\ UNCHANGED notFrameVars

\* tsx lines 385-399: the callback requestAnimationFrame runs
processFrame ==
    /\ frames["scheduled"] > 0
    /\ frames' = Moved("scheduled", enter(isRecording))
    /\ UNCHANGED <<isLoading, recognizerReady, isRecording, recognitionMode,
                   currentResult, mlpResult, lastGesture, memoryPool, heap,
                   landmarkDataCache, frameOutcome>>
    /\ UNCHANGED notFrameVars

\* tsx lines 407-434: the body of the try for a detection with a hand.
\* threw: an exception left the body; res, text: the result and the MLP text.
classify(mode, results, logits, failAt) ==
    IF mode = "WASM_RULE"
      THEN LET r == recognizeFast(results.multiHandLandmarks[1], failAt,
                                  memoryPool, heap, recognitionThreshold,
                                  neuralWeights, neuralBiases)
           IN  [threw |-> FALSE, res |-> r.res, text |-> "-",
                pool |-> r.pool, live |-> r.live, cache |-> r.cache]
    ELSE IF mode = "JS_RULE"
      THEN LET r == recognizeWithJavaScript(results.multiHandLandmarks[1])
           IN  [threw |-> r.threw, res |-> r.res, text |-> "-",
                pool |-> memoryPool, live |-> heap,
                cache |-> landmarkDataCache]
      ELSE LET r == predictWithMLP(results, logits)
           IN  [threw |-> r.kind # "value",
                res |-> MlpFrameResult(r.idx).res,
                text |-> MlpFrameResult(r.idx).text,
                pool |-> memoryPool, live |-> heap,
                cache |-> landmarkDataCache]

\* the result of the same frame on a recognizer as init leaves it: nothing
\* pooled, the default thresholds, the weights of initialize
FreshRuleResults ==
    [h \in FrameHands |->
        recognizeFast(h, "none", <<>>, {}, DefaultRecognitionThreshold,
                      InitialWeights, InitialBiases).res]

freshResult(mode, results, logits) ==
    IF mode = "WASM_RULE" THEN FreshRuleResults[results.multiHandLandmarks[1]]
    ELSE IF mode = "JS_RULE"
      THEN recognizeWithJavaScript(results.multiHandLandmarks[1]).res
      ELSE MlpFrameResult(predictWithMLP(results, logits).idx).res

\* a plausible slip: no try around the body, so that an exception ends the
\* iteration before line 468
rescheduleUncaught(threw) ==
    IF isRecording /\ ~threw THEN "scheduled" ELSE ""

\* tsx lines 464-470: the catch and the rescheduling
reschedule(threw) ==
    IF isRecording THEN "scheduled" ELSE ""

\* tsx lines 399-470: processFrame from the resolution of detector.detect to
\* its end.  The await of recognizeFast resumes in the same task.
resume(mode, results, logits, failAt) ==
    /\ frames[mode] > 0
    /\ mode # "WASM_MLP" => logits = [k \in 0..(NUM_CLASSES - 1) |-> 0]
    /\ mode # "WASM_RULE" => failAt = "none"
    /\ IF results.absent \/ Len(results.multiHandLandmarks) = 0
          THEN /\ currentResult' = NullResult
               /\ mlpResult' = "-"
               /\ frameOutcome' = [kind |-> "noHand", failed |-> FALSE,
                                   fresh |-> NullResult, chat |-> ""]
               /\ frames' = Moved(mode, reschedule(FALSE))
               /\ UNCHANGED <<lastGesture, memoryPool, heap,
                              landmarkDataCache>>
          ELSE \E c \in {classify(mode, results, logits, failAt)} :
               \E m \in {IF ~c.threw /\ c.res.confidence > ChatConfidence
                            THEN addChatMessage(c.res, lastGesture)
                            ELSE [added |-> "", last |-> lastGesture]} :
                 /\ frames' = Moved(mode, reschedule(c.threw))
                 /\ memoryPool' = c.pool
                 /\ heap' = c.live
                 /\ landmarkDataCache' = c.cache
                 /\ lastGesture' = m.last
                 /\ frameOutcome' =
                       [kind |-> IF c.threw THEN "error" ELSE "result",
                        failed |-> ~c.threw /\ c.res = MemoryError,
                        fresh |-> IF c.threw THEN NullResult
                                  ELSE freshResult(mode, results, logits),
                        chat |-> m.added]
                 /\ currentResult' = IF c.threw THEN currentResult ELSE c.res
                 /\ mlpResult' = IF c.threw THEN mlpResult ELSE c.text
    /\ UNCHANGED <<isLoading, recognizerReady, isRecording, recognitionMode>>
    /\ UNCHANGED notFrameVars

NextFrame ==
    \/ \E success \in BOOLEAN : init(success)
    \/ startRecording
    \/ stopRecording
    \/ clearChat
    \/ \E mode \in Modes : handleModeChange(mode)
    \/ processFrame
    \/ \E mode \in Modes, results \in FrameDetections,
          logits \in FrameLogits, failAt \in Failures :
          resume(mode, results, logits, failAt)

---------------------------------------------------------------------------
(* WASMSignRecognizer on its own: recognizeFast and dispose (part_003) *)

NoPoolCall == [op |-> "", failAt |-> "none", ptr |-> 0, res |-> NullResult]

InitPool == poolCall = NoPoolCall

\* the hands of the frames, and every combination of straight and folded
\* fingers and thumb
PoolHands ==
    FrameHands
      \cup { MakeHand(t, f) : t \in MainThumbs, f \in [0..3 -> MainPoses] }

\* part_003 lines 1494-1570: one call of recognizeFast, with any failure
\* inside it
RecognizeFast(lm, failAt) ==
    /\ ~isLoading
    /\ IF ~recognizerReady
         THEN /\ poolCall' = [op |-> "recognizeFast", failAt |-> "none",
                              ptr |-> 0, res |-> NotInitialized]
              /\ failAt = "none"
              /\ UNCHANGED <<memoryPool, heap, landmarkDataCache>>
         ELSE \E r \in {recognizeFast(lm, failAt, memoryPool, heap,
                                      recognitionThreshold, neuralWeights,
                                      neuralBiases)} :
                /\ poolCall' = [op |-> "recognizeFast", failAt |-> failAt,
                                ptr |-> r.ptr, res |-> r.res]
                /\ memoryPool' = r.pool
                /\ heap' = r.live
                /\ landmarkDataCache' = r.cache
    /\ UNCHANGED <<isLoading, recognizerReady, isRecording, recognitionMode,
                   frames, currentResult, mlpResult, lastGesture,
                   frameOutcome>>
    /\ UNCHANGED <<recognizerVars, mlpVars, matrixVars, normVars,
                   detectorVars, wrapperVars>>

\* part_003 lines 1693-1706: every pooled pointer is passed to _free, the
\* pool is emptied and the recognizer is no longer initialised
dispose ==
    /\ ~isLoading
    /\ heap' = heap \ { memoryPool[i] : i \in 1..Len(memoryPool) }
    /\ memoryPool' = <<>>
    /\ recognizerReady' = FALSE
    /\ poolCall' = [op |-> "dispose", failAt |-> "none", ptr |-> 0,
                    res |-> NullResult]
    /\ UNCHANGED <<isLoading, isRecording, recognitionMode, frames,
                   currentResult, mlpResult, lastGesture, landmarkDataCache,
                   frameOutcome>>
    /\ UNCHANGED <<recognizerVars, mlpVars, matrixVars, normVars,
                   detectorVars, wrapperVars>>

NextPool ==
    \/ \E success \in BOOLEAN : init(success)
    \/ \E lm \in PoolHands, failAt \in PoolFailures : RecognizeFast(lm, failAt)
    \/ dispose

---------------------------------------------------------------------------
(* MediaPipeHandDetector (part_005: first version 45-170, second 190-274) *)

Versions == {1, 2}
DetectIds == 1..MaxDetects

\* a promise detect returned: pending, or resolved with null or with a
\* detection; calls counts the calls of its resolver, from is the frame whose
\* result it was resolved with
NoPromise == [state |-> "none", calls |-> 0, from |-> 0]

InitDetector ==
    /\ detVersion = 0
    /\ detInitialized = FALSE
    /\ handsOpen = FALSE
    /\ currentResolve = 0
    /\ promises = [d \in DetectIds |-> NoPromise]
    /\ sent = [d \in DetectIds |-> "none"]
    /\ nextDetect = 1

\* the resolver of promise d called with a value of the given state from
\* frame f: only the first call settles the promise
Resolved(ps, d, state, f) ==
    [ps EXCEPT ![d] = [state |-> IF @.state = "pending" THEN state ELSE @.state,
                       calls |-> @.calls + 1,
                       from |-> IF @.state = "pending" THEN f ELSE @.from]]

\* lines 55-114 and 196-220: initialize of one of the two classes; ok is
\* whether MediaPipe could be loaded
detectorInitialize(version, ok) ==
    /\ detVersion = 0
    /\ detVersion' = version
    /\ detInitialized' = ok
    /\ handsOpen' = ok
    /\ UNCHANGED <<currentResolve, promises, sent, nextDetect>>
    /\ UNCHANGED <<recognizerVars, mlpVars, matrixVars, frameVars, normVars,
                   poolVars, wrapperVars>>

\* lines 124-140 and 252-266: detect.  Without an initialised detector the
\* promise resolves with null at once; otherwise the stored resolver is
\* called with null, the new one is stored and the frame is sent.
detect ==
    /\ detVersion # 0
    /\ nextDetect <= MaxDetects
    /\ nextDetect' = nextDetect + 1
    /\ IF ~detInitialized
         THEN /\ promises' = [promises EXCEPT ![nextDetect] =
                                 [state |-> "null", calls |-> 1, from |-> 0]]
              /\ UNCHANGED <<currentResolve, sent>>
         ELSE /\ promises' =
                   [(IF currentResolve # 0
                       THEN Resolved(promises, currentResolve, "null", 0)
                       ELSE promises)
                      EXCEPT ![nextDetect] =
                         [state |-> "pending", calls |-> 0, from |-> 0]]
              /\ currentResolve' = nextDetect
              /\ sent' = [sent EXCEPT ![nextDetect] = "sent"]
    /\ UNCHANGED <<detVersion, detInitialized, handsOpen>>
    /\ UNCHANGED <<recognizerVars, mlpVars, matrixVars, frameVars, normVars,
                   poolVars, wrapperVars>>

\* lines 86-107 and 237-250: the onResults callback for the frame f, with or
\* without a hand in it.  It resolves whatever resolver is stored.
handleResults(f, hasHand) ==
    /\ sent[f] = "sent"
    /\ sent' = [sent EXCEPT ![f] = "answered"]
    /\ IF currentResolve = 0
         THEN UNCHANGED <<promises, currentResolve>>
         ELSE /\ promises' = Resolved(promises, currentResolve,
                                      IF hasHand THEN "value" ELSE "null", f)
              /\ currentResolve' = 0
    /\ UNCHANGED <<detVersion, detInitialized, handsOpen, nextDetect>>
    /\ UNCHANGED <<recognizerVars, mlpVars, matrixVars, frameVars, normVars,
                   poolVars, wrapperVars>>

\* hands.send rejects for the frame f.  Lines 261-264: the second version
\* calls the resolver of that detect call and leaves currentResolve; line
\* 138: the first version does not look at the promise send returns.
sendFails(f) ==
    /\ sent[f] = "sent"
    /\ sent' = [sent EXCEPT ![f] = "failed"]
    /\ promises' = IF detVersion = 2 THEN Resolved(promises, f, "null", 0)
                   ELSE promises
    /\ UNCHANGED <<detVersion, detInitialized, handsOpen, currentResolve,
                   nextDetect>>
    /\ UNCHANGED <<recognizerVars, mlpVars, matrixVars, frameVars, normVars,
                   poolVars, wrapperVars>>

\* a frame in flight when hands.close() ran is discarded by MediaPipe
dropFrame(f) ==
    /\ sent[f] = "sent"
    /\ ~handsOpen
    /\ sent' = [sent EXCEPT ![f] = "dropped"]
    /\ UNCHANGED <<detVersion, detInitialized, handsOpen, currentResolve,
                   promises, nextDetect>>
    /\ UNCHANGED <<recognizerVars, mlpVars, matrixVars, frameVars, normVars,
                   poolVars, wrapperVars>>

\* lines 163-169 and 268-273: dispose.  The second version forgets the stored
\* resolver without calling it, the first leaves it.
detectorDispose ==
    /\ detVersion # 0
    /\ handsOpen
    /\ handsOpen' = FALSE
    /\ detInitialized' = FALSE
    /\ currentResolve' = IF detVersion = 2 THEN 0 ELSE currentResolve
    /\ UNCHANGED <<detVersion, promises, sent, nextDetect>>
    /\ UNCHANGED <<recognizerVars, mlpVars, matrixVars, frameVars, normVars,
                   poolVars, wrapperVars>>

\* what MediaPipe does with a frame it was sent
Answer ==
    \E f \in DetectIds :
        \/ \E hasHand \in BOOLEAN : handleResults(f, hasHand)
        \/ sendFails(f)
        \/ dropFrame(f)

NextDetector ==
    \/ \E version \in Versions, ok \in BOOLEAN : detectorInitialize(version, ok)
    \/ detect
    \/ detectorDispose
    \/ Answer

---------------------------------------------------------------------------
(* WASMSignRecognizer: its life cycle and its calls
   (wasm-sign-recognizer.ts 61-350, part_003 1401-1706) *)

\* "plain": wasm-sign-recognizer.ts; "pooled": part_003
Variants == {"plain", "pooled"}

\* what CreateSignWasmModule gave: nothing, or a module that has or lacks the
\* SignRecognizer class and HEAPF32
NullModule == [present |-> FALSE, hasClass |-> FALSE, hasHeap |-> FALSE]
Modules ==
    {NullModule}
      \cup { [present |-> TRUE, hasClass |-> c, hasHeap |-> h] :
                c \in BOOLEAN, h \in BOOLEAN }

\* what happens inside one run of the body of recognizeFast: nothing, _malloc
\* returns 0, recognizeFromPointer throws, JSON.parse throws
Attempts == {"none", "malloc", "recognize", "parse"}

NoOp == [name |-> "", returned |-> FALSE, result |-> "none"]

InitWrapper ==
    /\ variant = ""
    /\ wasmModule = NullModule
    /\ recognizer = FALSE
    /\ isInitialized = FALSE
    /\ lastOp = NoOp
    /\ callState = "idle"
    /\ callDepth = 0
    /\ wasmTouched = FALSE

\* the guard of recognizeFast, wasm-sign-recognizer.ts line 264 and part_003
\* line 1501
Usable == isInitialized /\ recognizer /\ wasmModule.present

\* wasm-sign-recognizer.ts lines 65-249 and part_003 lines 1401-1458:
\* initialize.  loaded: the script and the module loaded without an
\* exception; mod: the module; created: new SignRecognizer() did not throw;
\* inited: what recognizer.initialize() returned.
initializeWrapper(v, loaded, mod, created, inited) ==
    /\ callState # "running"
    /\ variant \in {"", v}
    /\ variant' = v
    /\ ~loaded => (mod = NullModule /\ created /\ inited)
    /\ (~mod.present \/ ~mod.hasClass) => (created /\ inited)
    /\ ~created => inited
    /\ v = "pooled" => inited
    /\ IF ~loaded
         THEN /\ UNCHANGED <<wasmModule, recognizer, isInitialized>>
              /\ lastOp' = [name |-> "initialize", returned |-> FALSE,
                            result |-> "none"]
         ELSE /\ wasmModule' = mod
              /\ IF ~mod.present
                   THEN /\ UNCHANGED <<recognizer, isInitialized>>
                        /\ lastOp' = [name |-> "initialize",
                                      returned |-> FALSE, result |-> "none"]
                 ELSE IF v = "plain"
                   THEN /\ recognizer' =
                              (IF mod.hasClass /\ created THEN TRUE
                               ELSE recognizer)
                        /\ isInitialized' =
                              (IF mod.hasClass /\ created /\ inited THEN TRUE
                               ELSE isInitialized)
                        /\ lastOp' = [name |-> "initialize",
                                      returned |-> mod.hasClass /\ created
                                                     /\ inited,
                                      result |-> "none"]
                   ELSE /\ recognizer' =
                              (IF mod.hasClass /\ created THEN TRUE
                               ELSE recognizer)
                        /\ isInitialized' =
                              (IF created THEN TRUE ELSE isInitialized)
                        /\ lastOp' = [name |-> "initialize",
                                      returned |-> created, result |-> "none"]
    /\ UNCHANGED <<callState, callDepth, wasmTouched>>
    /\ UNCHANGED <<recognizerVars, mlpVars, matrixVars, frameVars, normVars,
                   poolVars, detectorVars>>

\* wasm-sign-recognizer.ts lines 344-349 and part_003 lines 1693-1706
disposeWrapper ==
    /\ callState # "running"
    /\ variant # ""
    /\ recognizer' = FALSE
    /\ wasmModule' = NullModule
    /\ isInitialized' = FALSE
    /\ lastOp' = [name |-> "dispose", returned |-> FALSE, result |-> "none"]
    /\ UNCHANGED <<variant, callState, callDepth, wasmTouched>>
    /\ UNCHANGED <<recognizerVars, mlpVars, matrixVars, frameVars, normVars,
                   poolVars, detectorVars>>

\* a call of recognize (wasm-sign-recognizer.ts 255-258, which only calls
\* recognizeFast) or of recognizeFast: the first frame is entered
callRecognize ==
    /\ callState # "running"
    /\ variant # ""
    /\ callState' = "running"
    /\ callDepth' = 1
    /\ wasmTouched' = FALSE
    /\ lastOp' = [name |-> "recognizeFast", returned |-> FALSE,
                  result |-> "none"]
    /\ UNCHANGED <<variant, wasmModule, recognizer, isInitialized>>
    /\ UNCHANGED <<recognizerVars, mlpVars, matrixVars, frameVars, normVars,
                   poolVars, detectorVars>>

\* the call ends with a value
Resolve(value, touched) ==
    /\ callState' = "resolved"
    /\ callDepth' = 0
    /\ wasmTouched' = touched
    /\ lastOp' = [name |-> "recognizeFast", returned |-> TRUE,
                  result |-> value]

\* this.recognize(landmarks) at lines 277 and 312: one more frame of
\* recognizeFast, or the RangeError of a full stack, which rejects the promise
Descend(touched) ==
    /\ wasmTouched' = touched
    /\ IF callDepth < MaxDepth
         THEN /\ callState' = "running"
              /\ callDepth' = callDepth + 1
              /\ lastOp' = lastOp
         ELSE /\ callState' = "rejected"
              /\ callDepth' = 0
              /\ lastOp' = [name |-> "recognizeFast", returned |-> TRUE,
                            result |-> "rejected"]

\* wasm-sign-recognizer.ts lines 263-314 and part_003 lines 1494-1570: the
\* body of recognizeFast in the frame on top of the stack
runRecognizeFast(attempt) ==
    /\ callState = "running"
    /\ IF ~Usable
         THEN /\ attempt = "none"
              /\ Resolve("notDetected", wasmTouched)
       ELSE IF variant = "pooled"
         THEN Resolve(IF attempt = "none" THEN "result" ELSE "memoryError",
                      TRUE)
       ELSE IF ~wasmModule.hasHeap
         THEN /\ attempt = "none"
              /\ Descend(wasmTouched)
       ELSE IF attempt = "none"
         THEN Resolve("result", TRUE)
         ELSE Descend(TRUE)
    /\ UNCHANGED <<variant, wasmModule, recognizer, isInitialized>>
    /\ UNCHANGED <<recognizerVars, mlpVars, matrixVars, frameVars, normVars,
                   poolVars, detectorVars>>

Run == \E attempt \in Attempts : runRecognizeFast(attempt)

NextWrapper ==
    \/ \E v \in Variants, loaded \in BOOLEAN, mod \in Modules,
          created \in BOOLEAN, inited \in BOOLEAN :
          initializeWrapper(v, loaded, mod, created, inited)
    \/ disposeWrapper
    \/ callRecognize
    \/ Run

---------------------------------------------------------------------------
(* Normalisation on its own (part_003 1668-1691, sign_recognition.cpp 87-102) *)

\* sign_recognition.cpp lines 87-102: x and y of each landmark less the
\* wrist's, in order; nothing for a vector that has not 21 landmarks
normalizeLandmarksCpp(lm) ==
    IF Size(lm) # NumLandmarks THEN <<>>
    ELSE [k \in 1..(2 * NumLandmarks) |->
            IF (k - 1) % 2 = 0 THEN lm[(k - 1) \div 2].x - lm[0].x
            ELSE lm[(k - 1) \div 2].y - lm[0].y]

\* the landmarks moved by the offset t
Translate(pts, t) ==
    [i \in DOMAIN pts |-> Point(pts[i].x + t.x, pts[i].y + t.y, pts[i].z + t.z)]

Offsets ==
    { Point(dx, dy, dz) : dx \in -MaxOffset..MaxOffset,
                          dy \in -MaxOffset..MaxOffset,
                          dz \in -MaxOffset..MaxOffset }

\* hands of 21 points: at rest, with landmark 9 on the wrist, open, and the
\* hands of the frames; and one cut to 9 points
NormHands == {RestHand, FlatHand} \cup FrameHands

NoNorm == [threw |-> FALSE, out |-> <<>>, cpp |-> <<>>]

InitNorm ==
    /\ normPts = <<>>
    /\ normOffset = Point(0, 0, 0)
    /\ normOut = NoNorm
    /\ normShifted = NoNorm

\* both normalisations of one landmark set
Normalized(pts) ==
    CHOOSE r \in { [threw |-> n.threw, out |-> n.out,
                    cpp |-> normalizeLandmarksCpp(pts)] :
                     n \in {normalizeLandmarks(pts)} } : TRUE

\* normalizeLandmarks called on a landmark set and on its translation by t
Normalize(pts, t) ==
    /\ normPts' = pts
    /\ normOffset' = t
    /\ normOut' = Normalized(pts)
    /\ normShifted' = Normalized(Translate(pts, t))
    /\ UNCHANGED <<recognizerVars, mlpVars, matrixVars, frameVars, poolVars,
                   detectorVars, wrapperVars>>

NextNorm == \E pts \in NormHands, t \in Offsets : Normalize(pts, t)

Init == InitRecognizer /\ InitMLP /\ InitMatrix /\ InitFrame /\ InitNorm /\ InitPool
          /\ InitDetector /\ InitWrapper

Next == NextRecognizer

Spec == Init /\ [][Next]_vars

SpecMLP == Init /\ [][NextMLP]_vars

SpecMatrix == Init /\ [][NextMatrix]_vars

SpecFrame == Init /\ [][NextFrame]_vars

SpecNorm == Init /\ [][NextNorm]_vars

SpecPool == Init /\ [][NextPool]_vars

SpecDetector == Init /\ [][NextDetector]_vars

\* MediaPipe settles every frame it was sent: with the results callback, with
\* a rejection of send, or by discarding it after close
SpecDetectorFair == SpecDetector /\ WF_vars(Answer)

SpecWrapper == Init /\ [][NextWrapper]_vars

\* recognizeFast has no await: once called, its frames run to their end
SpecWrapperFair == SpecWrapper /\ WF_vars(Run)

---------------------------------------------------------------------------
(* Properties of SignRecognizer, checked under Spec *)

Recognized == call \in {"recognize", "recognizeFromPointer"}

\* the fingers the rule classifier finds extended
ExtendedSet(lm) ==
    { f \in {"thumb", "index", "middle", "ring", "pinky"} :
        \/ f = "thumb" /\ thumbExtended(lm)
        \/ f = "index" /\ indexExtended(lm)
        \/ f = "middle" /\ middleExtended(lm)
        \/ f = "ring" /\ ringExtended(lm)
        \/ f = "pinky" /\ pinkyExtended(lm) }

\* the rule table as the specification words it
RuleTable(s) ==
    IF s = {"index"} THEN [gesture |-> "Yes", confidence |-> 850, id |-> 3]
    ELSE IF s = {"thumb", "index", "middle", "ring", "pinky"}
      THEN [gesture |-> "Hello", confidence |-> 800, id |-> 1]
    ELSE IF s = {} THEN [gesture |-> "Thanks", confidence |-> 750, id |-> 2]
    ELSE IF s = {"index", "middle"}
      THEN [gesture |-> "V", confidence |-> 700, id |-> 4]
    ELSE IF s = {"index", "middle", "ring"}
      THEN [gesture |-> "OK", confidence |-> 700, id |-> 5]
    ELSE [gesture |-> "None", confidence |-> 0, id |-> 0]

\* C1: a recognize call on a landmark vector whose length is not 21, and a
\* recognizeFromPointer call whose count is not 42, return the no-gesture
\* result (confidence 0, id 0) and read no landmark; recognizeByRules on such
\* a vector does the same.
C1_MalformedLengthFailsClosed ==
    /\ (call = "recognize" /\ Size(landmarks) # NumLandmarks) =>
          /\ result = NoGesture
          /\ reads = {}
          /\ recognizeByRules(landmarks) = [res |-> NoGesture, reads |-> {}]
    /\ (call = "recognizeFromPointer" /\ count # PointerCount) =>
          /\ result = NoGesture
          /\ reads = {}
          /\ json = NoGestureJson

C1_Witness ==
    /\ call = "recognize"
    /\ Size(landmarks) = NumLandmarks - 1
    /\ neuralWeights # <<>>
    /\ result = NoGesture
    /\ reads = {}

C3_LoveRule ==
    (Recognized /\ ruleResult # NotComputed
       /\ ExtendedSet(landmarks) = {"thumb", "index", "pinky"}) =>
        ruleResult = [gesture |-> "Love", confidence |-> 800, id |-> 6]

C5_FallbackToRules ==
    (Recognized /\ mlResult # NotComputed
       /\ mlResult.confidence < recognitionThreshold) =>
        /\ ruleResult = recognizeByRules(landmarks).res
        /\ (ruleResult.confidence > mlResult.confidence) => result = ruleResult
        /\ (ruleResult.confidence <= mlResult.confidence) => result = mlResult

C5_Witness ==
    /\ call = "recognizeFromPointer"
    /\ mlResult.confidence < recognitionThreshold
    /\ ruleResult.confidence > mlResult.confidence
    /\ result = ruleResult
    /\ result # mlResult

\* C6: no result with 0 < confidence < recognitionThreshold is returned.
C6_ThresholdGate ==
    Recognized =>
        ~(0 < result.confidence /\ result.confidence < recognitionThreshold)

\* C7: when the detector's confidence for the frame is below
\* detectionThreshold, the result has id 0 and confidence 0.
C7_DetectionGate ==
    (Recognized /\ handConfidence < detectionThreshold) =>
        (result.id = 0 /\ result.confidence = 0)

\* C8: when the feature vector has not the network's input width, or the
\* weights are not loaded, the neural result is no-gesture with id 0 and
\* confidence exactly 0.
C8_NeuralFailsClosed ==
    (Recognized /\ mlResult # NotComputed
       /\ (neuralWeights = <<>>
             \/ Len(extractComplexFeatures(landmarks)) # NeuralInputWidth)) =>
        mlResult = NoGesture

\* C9 (first half): for 21 landmarks extractComplexFeatures returns as many
\* features as neuralNetworkInference requires.
C9_FeatureWidth ==
    (Recognized /\ Size(landmarks) = NumLandmarks) =>
        Len(extractComplexFeatures(landmarks)) = NeuralInputWidth

\* C17: once initialize has filled the weight and bias tables, no operation
\* (a further initialize, recognize, recognizeFromPointer, a threshold setter)
\* changes their contents, so no later recognize sees them empty or partly
\* filled.
C17_WeightsWrittenOnce ==
    [][(neuralWeights # <<>>) =>
          /\ neuralWeights' = neuralWeights
          /\ neuralBiases' = neuralBiases
          /\ neuralWeights' = InitialWeights
          /\ neuralBiases' = InitialBiases]_vars

C17_Witness ==
    /\ call = "recognize"
    /\ Size(landmarks) = NumLandmarks
    /\ neuralWeights = InitialWeights
    /\ neuralBiases = InitialBiases

C19_SameFingerTest ==
    (Recognized /\ Size(landmarks) = NumLandmarks) =>
        /\ isExtended(landmarks)[2] = indexExtended(landmarks)
        /\ isExtended(landmarks)[3] = middleExtended(landmarks)
        /\ isExtended(landmarks)[4] = ringExtended(landmarks)
        /\ isExtended(landmarks)[5] = pinkyExtended(landmarks)

---------------------------------------------------------------------------
(* Properties of SignRecognition, checked under SpecMLP *)

\* C10: after a setScaler call either both stored vectors equal the
\* arguments, which are both D_IN long, or both are as they were before the
\* call.
C10_ScalerAtomic ==
    (mlpCall = "setScaler") =>
        \/ /\ Len(meanArg) = D_IN
           /\ Len(scaleArg) = D_IN
           /\ mean = meanArg
           /\ scale = scaleArg
        \/ /\ mean = oldMean
           /\ scale = oldScale

\* C11: every stored scale entry is non-zero after any sequence of setScaler
\* calls, and no predictMLP divides by zero while standardising.
C11_ScaleNonZero ==
    /\ \A i \in 1..Len(scale) : scale[i] # 0
    /\ (mlpCall = "predictWithMLP" /\ mlpReturn.kind = "value") =>
          ~DividesByZero(featureVec, scale)

\* the hands of a detection result that carry the label
HandsLabelled(results, label) ==
    { results.multiHandLandmarks[i] :
        i \in { j \in 1..Len(results.multiHandLandmarks) :
                  /\ j <= Len(results.multiHandedness)
                  /\ results.multiHandedness[j] = label } }

\* entries first .. first + 62 of the vector hold a hand carrying the label,
\* normalised, or 63 zeros when no hand carries it
SlotHolds(vec, first, results, label) ==
    LET slot == SubSeq(vec, first + 1, first + HandWidth)
    IN  IF HandsLabelled(results, label) = {}
          THEN slot = Vector(HandWidth, Zero)
          ELSE \E h \in HandsLabelled(results, label) :
                  /\ ~normalizeLandmarks(h).threw
                  /\ slot = Pushed(normalizeLandmarks(h).out)

\* C12: in the vector built for a detection result, entries 0..62 hold the
\* hand labelled Left and entries 63..125 the hand labelled Right, whatever
\* their order; a hand that is absent leaves 63 zeros in its slot.
C12_SlotsByLabel ==
    (mlpCall = "predictWithMLP" /\ mlpReturn.kind = "value"
       /\ ~detection.absent) =>
        /\ Len(featureVec) = D_IN
        /\ SlotHolds(featureVec, 0, detection, "Left")
        /\ SlotHolds(featureVec, HandWidth, detection, "Right")

\* C20: for a 126-entry input the class id predictMLP returns is inside
\* 0..NUM_CLASSES-1, no logit is larger than the logit at that index, and
\* every logit at a lower index is strictly smaller.
C20_ArgMaxLowestIndex ==
    (mlpCall = "predictWithMLP" /\ mlpReturn.kind = "value"
       /\ Len(featureVec) = D_IN) =>
        /\ mlpReturn.idx \in 0..(NUM_CLASSES - 1)
        /\ \A j \in 0..(NUM_CLASSES - 1) :
              mlpLogits[j] <= mlpLogits[mlpReturn.idx]
        /\ \A j \in 0..(mlpReturn.idx - 1) :
              mlpLogits[j] < mlpLogits[mlpReturn.idx]

C20_Witness ==
    /\ mlpCall = "predictWithMLP"
    /\ mlpReturn.kind = "value"
    /\ Len(featureVec) = D_IN
    /\ mlpLogits[1] = mlpLogits[2]
    /\ mlpLogits[0] < mlpLogits[1]
    /\ mlpReturn.idx = 1


\* C15: predictWithMLP returns a value for every detection result, whatever
\* the number of points of its hands; it never throws.
C15_NeverRaises ==
    (mlpCall = "predictWithMLP") => (mlpReturn.kind = "value")

---------------------------------------------------------------------------
(* Properties of the large-matrix network, checked under SpecMatrix *)

\* C13: classification carries no state between calls: two calls with the
\* same landmarks return the same id and the same result, whatever calls
\* were made in between.
C13_Deterministic ==
    \A a \in answers, b \in answers : (a.lm = b.lm) => (a.res = b.res)

---------------------------------------------------------------------------
(* Properties of the page and its processFrame loop, checked under SpecFrame *)

\* C14: a result the page publishes with id 0 carries a no-gesture label and
\* confidence 0, in every recognition mode.
C14_IdZeroIsNoGesture ==
    (currentResult # NullResult /\ currentResult.id = 0) =>
        /\ currentResult.confidence = 0
        /\ currentResult.gesture \in {"None", "gamjidoeji anheum"}

\* a step in which a processFrame iteration runs from the resolution of
\* detector.detect to its end
Resumed == Awaiting' < Awaiting

C29_NothingPublishedAfterStop ==
    ~isRecording => (currentResult = NullResult /\ mlpResult = "-")

\* C30: at most one processFrame invocation is in flight (scheduled or
\* awaiting), whatever startRecording and stopRecording calls were made.
C30_SingleLoop == InFlight <= 1

---------------------------------------------------------------------------
(* Properties of the normalisation, checked under SpecNorm *)

\* C21: for a set of 21 landmarks, normalising the set translated by any
\* offset gives what normalising the set gives, in the TypeScript and in
\* the C++ normalisation, and the wrist of the normalised set is the origin.
C21_TranslationInvariant ==
    (Size(normPts) = NumLandmarks) =>
        /\ ~normOut.threw /\ ~normShifted.threw
        /\ normShifted.out = normOut.out
        /\ normShifted.cpp = normOut.cpp
        /\ normOut.out[0] = Point(Zero, Zero, Zero)
        /\ normOut.cpp[1] = 0 /\ normOut.cpp[2] = 0

C21_Witness ==
    /\ Size(normPts) = NumLandmarks
    /\ normOffset # Point(0, 0, 0)
    /\ normPts[9] # normPts[0]
    /\ normShifted.out = normOut.out
    /\ \E i \in DOMAIN normPts : normOut.out[i].x # Zero

\* the landmark i of normPts less the wrist
Centered(i) ==
    Point(normPts[i].x - normPts[0].x, normPts[i].y - normPts[0].y,
          normPts[i].z - normPts[0].z)

\* the square of the distance from the wrist to landmark 9
RefDistance2 ==
    Centered(9).x * Centered(9).x + Centered(9).y * Centered(9).y
      + Centered(9).z * Centered(9).z

\* C22: when landmark 9 lies on the wrist, the normalised coordinates are the
\* wrist-centred coordinates, divided by 1; otherwise each is the centred
\* coordinate divided by the distance from the wrist to landmark 9.
C22_ZeroDistanceScaleOne ==
    (Size(normPts) = NumLandmarks) =>
        \A i \in DOMAIN normPts :
            LET d2 == IF RefDistance2 = 0 THEN 1 ELSE RefDistance2
            IN  normOut.out[i] = Point(Quot(Centered(i).x, d2),
                                       Quot(Centered(i).y, d2),
                                       Quot(Centered(i).z, d2))

C22_Witness ==
    /\ Size(normPts) = NumLandmarks
    /\ RefDistance2 = 0
    /\ \E i \in DOMAIN normPts : normOut.out[i].z = Quot(1, 1)

---------------------------------------------------------------------------
(* Properties of the pointer pool, checked under SpecPool *)

\* C23: after any calls of recognizeFast, failing at any step or not, the
\* pool holds at most 50 pointers, no pointer twice and no pointer that was
\* passed to _free; and the pointer of a call that failed is freed and is not
\* in the pool.
C23_PoolSound ==
    /\ Len(memoryPool) <= PoolLimit
    /\ \A i, j \in 1..Len(memoryPool) :
          memoryPool[i] = memoryPool[j] => i = j
    /\ \A i \in 1..Len(memoryPool) : memoryPool[i] \in heap
    /\ (poolCall.res = MemoryError /\ poolCall.ptr # 0) =>
          /\ poolCall.ptr \notin heap
          /\ \A i \in 1..Len(memoryPool) : memoryPool[i] # poolCall.ptr

---------------------------------------------------------------------------
(* Properties of the hand detector, checked under SpecDetector *)

\* C24: at most one detection is pending; a detect call made while an earlier
\* one is pending resolves the earlier promise with null before it stores its
\* own resolver; and the resolver of no promise is called twice.
C24_OnePendingResolvedOnce ==
    /\ Cardinality({d \in DetectIds : promises[d].state = "pending"}) <= 1
    /\ \A d \in DetectIds :
          (promises[d].state = "pending" /\ currentResolve # 0) =>
              currentResolve = d
    /\ \A d \in DetectIds : promises[d].calls <= 1

\* C25: every promise detect returned is resolved in the end, whatever detect
\* calls, result callbacks, send failures and dispose come in between.
C25_EveryDetectResolves ==
    \A d \in DetectIds :
        (promises[d].state = "pending") ~> (promises[d].state # "pending")

\* C26: a promise that resolved with the result of a frame resolved with the
\* result of the frame its own detect call sent.
C26_ResultOfOwnFrame ==
    \A d \in DetectIds : promises[d].from \in {0, d}

---------------------------------------------------------------------------
(* Properties of WASMSignRecognizer, checked under SpecWrapper *)

\* C27: every call of recognize or recognizeFast ends with a result: in no
\* state of the module do recognize and recognizeFast call each other until
\* the stack is full.
C27_CallResolves ==
    (callState = "running") ~> (callState = "resolved")

\* C28: isInitialized holds only with a module and a rule recognizer;
\* initialize returns true only then; and a recognizeFast call on a
\* recognizer that is not initialised returns the result with confidence 0
\* and id 0 without reaching _malloc.
C28_Lifecycle ==
    /\ isInitialized => (wasmModule.present /\ recognizer)
    /\ (lastOp.name = "initialize" /\ lastOp.returned) =>
          (isInitialized /\ wasmModule.present /\ recognizer)
    /\ (lastOp.name = "recognizeFast" /\ lastOp.returned /\ ~isInitialized) =>
          (lastOp.result = "notDetected" /\ ~wasmTouched)

=============================================================================
